---- MODULE Spec2Model ----
(***************************************************************************)
(* Model of the quote API: the QuotesDB storage component (database.js)    *)
(* and the Express request handlers (server.js).                           *)
(*                                                                         *)
(* Text is a sequence of character codes (a = 1 .. z = 26), so that the    *)
(* ORDER BY clauses compare text the way SQLite's BINARY collation does.   *)
(* A JSON value of a request body is a record [t, s, a]: t is its          *)
(* JavaScript type, s its text when it is a string, a its elements when    *)
(* it is an array (of strings).                                            *)
(***************************************************************************)
EXTENDS Naturals, Sequences, FiniteSets, TLC

VARIABLES table, req, res, created, txn

vars == <<table, req, res, created, txn>>

\* ------------------------------------------------------------------ bounds

\* Most rows the table holds: a write is issued only while the table has room
\* for every record it carries.
MaxRows == 2
\* Most elements of a bulk-import payload.
MaxBatch == 2

\* -------------------------------------------------------------------- text

Empty == <<>>
Ta == <<1>>
Tb == <<2>>
FR == <<6, 18>>
EN == <<5, 14>>
DE == <<4, 5>>
FRA == <<6, 18, 1>>

\* memcmp order of two texts, the shorter first when one is a prefix.
RECURSIVE TextLeq(_, _)
TextLeq(x, y) ==
  IF x = <<>> THEN TRUE
  ELSE IF y = <<>> THEN FALSE
  ELSE IF Head(x) < Head(y) THEN TRUE
  ELSE IF Head(x) > Head(y) THEN FALSE
  ELSE TextLeq(Tail(x), Tail(y))

\* ------------------------------------------------------- JavaScript values

Undefined == [t |-> "undefined", s |-> <<>>, a |-> <<>>]
Null == [t |-> "null", s |-> <<>>, a |-> <<>>]
True == [t |-> "boolean", s |-> <<>>, a |-> <<>>]
Str(x) == [t |-> "string", s |-> x, a |-> <<>>]
Arr(xs) == [t |-> "array", s |-> <<>>, a |-> xs]

\* JavaScript truthiness, as `!quote` and `quote.quote && ...` test it: the
\* empty string, null and undefined are falsy; true and every array are truthy.
Truthy(v) ==
  CASE v.t = "string" -> v.s # <<>>
    [] v.t = "boolean" -> TRUE
    [] v.t = "array" -> TRUE
    [] OTHER -> FALSE

\* An element of a bulk payload: a plain object with its three properties (a
\* missing key reads as undefined), null, or a number.
Obj(q, a, l) == [t |-> "object", quote |-> q, author |-> a, language |-> l]
NullElement == [t |-> "null", quote |-> Undefined, author |-> Undefined, language |-> Undefined]
NumberElement == [t |-> "number", quote |-> Undefined, author |-> Undefined, language |-> Undefined]

\* A request body: the array of a bulk import, or the object of a single insert.
ArrayBody(items) == [isArray |-> TRUE, items |-> items, quote |-> Undefined, author |-> Undefined]
ObjectBody(q, a) == [isArray |-> FALSE, items |-> <<>>, quote |-> q, author |-> a]
NoBody == ObjectBody(Undefined, Undefined)

\* ------------------------------------------------------- storage component

\* The outcome of a storage call: the table after it and the error it threw.
Done(tbl) == [ok |-> TRUE, table |-> tbl, error |-> "none"]
Thrown(tbl, e) == [ok |-> FALSE, table |-> tbl, error |-> e]

\* INSERT INTO quotes: the NOT NULL and CHECK constraints of the schema, and the
\* AUTOINCREMENT id. No row is ever deleted, so the next id is the row count + 1.
ExecInsert(tbl, q, a, l) ==
  IF q.t = "null" \/ a.t = "null" \/ l.t = "null"
  THEN Thrown(tbl, "SqliteError")
  ELSE IF l.s \notin {FR, EN}
  THEN Thrown(tbl, "SqliteError")
  ELSE Done(Append(tbl, [id |-> Len(tbl) + 1, quote |-> q.s, author |-> a.s,
                         language |-> l.s]))

\* What the driver binds: strings and null. Anything else is a TypeError.
Bindable(v) == v.t \in {"string", "null"}

\* The driver takes the anonymous parameters from the arguments in order, an
\* array argument giving its elements one by one.
RECURSIVE Flatten(_)
Flatten(args) ==
  IF args = <<>> THEN <<>>
  ELSE LET h == Head(args)
       IN (IF h.t = "array" THEN [i \in 1..Len(h.a) |-> Str(h.a[i])] ELSE <<h>>)
          \o Flatten(Tail(args))

\* statements.insertQuote.run(quote, author, language): three `?` parameters.
insertQuote_run(tbl, args) ==
  LET vals == Flatten(args)
  IN IF \E i \in 1..Len(vals) : ~Bindable(vals[i]) THEN Thrown(tbl, "TypeError")
     ELSE IF Len(vals) # 3 THEN Thrown(tbl, "RangeError")
     ELSE ExecInsert(tbl, vals[1], vals[2], vals[3])

\* statements.insertManyQuotes.run(quote): @quote, @author, @language are read
\* from the properties of a plain object.
insertManyQuotes_run(tbl, e) ==
  IF e.t # "object" THEN Thrown(tbl, "RangeError")
  ELSE IF \E v \in {e.quote, e.author, e.language} : v.t = "undefined"
  THEN Thrown(tbl, "RangeError")
  ELSE IF \E v \in {e.quote, e.author, e.language} : ~Bindable(v)
  THEN Thrown(tbl, "TypeError")
  ELSE ExecInsert(tbl, e.quote, e.author, e.language)

addQuote_lost(tbl, quote, author, language) == Done(tbl)

addQuote(tbl, quote, author, language) ==
  insertQuote_run(tbl, <<quote, author, language>>)

\* The loop of the transaction function: it stops at the first insert that
\* throws, with the rows inserted so far still in the table.
RECURSIVE InsertEach(_, _)
InsertEach(tbl, quotes) ==
  IF quotes = <<>> THEN Done(tbl)
  ELSE LET r == insertManyQuotes_run(tbl, Head(quotes))
       IN IF r.ok THEN InsertEach(r.table, Tail(quotes)) ELSE r

Rollback_keep(current, snapshot) == current

\* ROLLBACK: the table is again what it was at BEGIN.
Rollback(current, snapshot) == snapshot

\* db.transaction(fn)(quotes): BEGIN, the loop, then COMMIT, or ROLLBACK and
\* rethrow when the loop threw.
transaction(tbl, quotes) ==
  LET r == InsertEach(tbl, quotes)
  IN IF r.ok THEN r ELSE Thrown(Rollback(r.table, tbl), r.error)

addManyQuotes(tbl, quotes) ==
  LET r == transaction(tbl, quotes)
  IN IF r.ok
     THEN [table |-> r.table, success |-> TRUE, count |-> Len(quotes), error |-> "none"]
     ELSE [table |-> r.table, success |-> FALSE, count |-> 0, error |-> r.error]

\* The columns every SELECT returns: the id is not among them.
Project(row) == [quote |-> row.quote, author |-> row.author, language |-> row.language]

ByLanguageAuthor(r1, r2) ==
  \/ r1.language # r2.language /\ TextLeq(r1.language, r2.language)
  \/ r1.language = r2.language /\ TextLeq(r1.author, r2.author)

ByAuthor(r1, r2) == TextLeq(r1.author, r2.author)

\* The comparison of the ORDER BY clause named by key.
KeyLeq(key, r1, r2) ==
  IF key = "language, author" THEN ByLanguageAuthor(r1, r2) ELSE ByAuthor(r1, r2)

\* The results a SELECT ... ORDER BY may return: every row once, in an order
\* that respects the sort key; rows with equal keys come in any order.
OrderBy(rows, key) ==
  LET n == Len(rows)
      orders == {p \in [1..n -> 1..n] :
                   /\ \A i, j \in 1..n : i # j => p[i] # p[j]
                   /\ \A i \in 1..n : i < n => KeyLeq(key, rows[p[i]], rows[p[i + 1]])}
  IN {[i \in 1..n |-> Project(rows[p[i]])] : p \in orders}

Where(tbl, language) == SelectSeq(tbl, LAMBDA r : r.language = language)

getAllQuotes(tbl) == OrderBy(tbl, "language, author")

getQuotesByLanguage_all(tbl, language) == OrderBy(tbl, "author")

getQuotesByLanguage(tbl, language) == OrderBy(Where(tbl, language), "author")

getRandomQuote_first(tbl, language) ==
  LET m == Where(tbl, language)
  IN IF m = <<>> THEN {} ELSE {Project(m[1])}

\* ORDER BY RANDOM() LIMIT 1: any one of the matching rows; no row (undefined)
\* when none matches.
getRandomQuote(tbl, language) ==
  LET m == Where(tbl, language)
  IN {Project(m[i]) : i \in 1..Len(m)}

\* ------------------------------------------------ request-handling component

validateLanguage_any(language) == TRUE

\* validateLanguage calls next() exactly when the path segment is 'fr' or 'en'.
validateLanguage(language) == language \in {FR, EN}

\* The callback of quotes.every(...): reading a property of null throws; of a
\* number it gives undefined.
ElementOk(e) ==
  /\ e.t = "object"
  /\ Truthy(e.quote)
  /\ Truthy(e.author)
  /\ Truthy(e.language)
  /\ e.language.t = "string" /\ e.language.s \in {FR, EN}

\* Array.prototype.every stops at the first element whose callback is falsy.
RECURSIVE Every(_)
Every(items) ==
  IF items = <<>> THEN "true"
  ELSE IF Head(items).t = "null" THEN "throw"
  ELSE IF ElementOk(Head(items)) THEN Every(Tail(items))
  ELSE "false"

\* "true", "false", or "throw" when the callback raised a TypeError.
validateQuotes(body) == IF ~body.isArray THEN "false" ELSE Every(body.items)

RequiredFields_quoteOnly(body) == Truthy(body.quote)

\* The negation of `!quote || !author`.
RequiredFields(body) == Truthy(body.quote) /\ Truthy(body.author)

IsEmpty_never(quotes) == FALSE

\* `!quotes.length`
IsEmpty(quotes) == Len(quotes) = 0

Request(op, language, body) == [op |-> op, language |-> language, body |-> body]

\* A response: its status and the parts of its JSON body. dbCalls counts the calls
\* the handler made to the storage component before it answered.
Reply(status, dbCalls) ==
  [status |-> status, total |-> 0, quotes |-> <<>>, count |-> 0, success |-> FALSE,
   error |-> "none", dbCalls |-> dbCalls]

Listing(quotes) == [Reply(200, 1) EXCEPT !.total = Len(quotes), !.quotes = quotes]

ImportReply(result) ==
  [Reply(IF result.success THEN 200 ELSE 500, 1) EXCEPT
     !.success = result.success, !.count = result.count, !.error = result.error]

NoTxn == [active |-> FALSE, before |-> <<>>, rest |-> <<>>]

Idle_always == TRUE

\* Every handler is a synchronous function and the driver's calls are synchronous:
\* the event loop starts a handler only when no other handler is running.
Idle == ~txn.active

\* ------------------------------------------------------------------ inputs

PathSegments == {FR, EN, DE, FRA}

QuoteInputs == {Undefined, Null, Str(Empty), Str(Ta), True, Arr(<<>>), Arr(<<Empty>>)}

AuthorInputs == {Undefined, Str(Empty), Str(Ta), Str(Tb), Arr(<<Empty>>)}

SingleBodies == {ObjectBody(q, a) : q \in QuoteInputs, a \in AuthorInputs}

Elements ==
  {Obj(Str(Ta), Str(Ta), Str(FR)), Obj(Str(Ta), Str(Tb), Str(FR)),
   Obj(Str(Ta), Str(Ta), Str(EN)), Obj(Str(Ta), Str(Ta), Str(DE)),
   Obj(Str(Empty), Str(Ta), Str(FR)), Obj(Str(Ta), Undefined, Str(FR)),
   Obj(True, Str(Ta), Str(FR)), NullElement, NumberElement}

Batches == UNION {[1..n -> Elements] : n \in 0..MaxBatch}

BulkBodies == {ArrayBody(items) : items \in Batches} \cup {NoBody}

\* ---------------------------------------------------------------- handlers

Init ==
  /\ table = <<>>
  /\ req = Request("none", Empty, NoBody)
  /\ res = Reply(0, 0)
  /\ created = {}
  /\ txn = NoTxn

\* GET /quotes
GetQuotes ==
  /\ Idle
  /\ req' = Request("GET /quotes", Empty, NoBody)
  /\ \E quotes \in getAllQuotes(table) :
       res' = IF IsEmpty(quotes) THEN Reply(404, 1) ELSE Listing(quotes)
  /\ UNCHANGED <<table, created, txn>>

\* POST /quotes
PostQuotes(body) ==
  /\ Idle
  /\ Len(table) + Len(body.items) <= MaxRows
  /\ req' = Request("POST /quotes", Empty, body)
  /\ LET valid == validateQuotes(body)
     IN IF valid = "throw"
        THEN res' = Reply(500, 0) /\ table' = table
        ELSE IF valid = "false"
        THEN res' = Reply(400, 0) /\ table' = table
        ELSE LET result == addManyQuotes(table, body.items)
             IN table' = result.table /\ res' = ImportReply(result)
  /\ UNCHANGED <<created, txn>>

\* GET /:language/quotes
GetLanguageQuotes(language) ==
  /\ Idle
  /\ req' = Request("GET /:language/quotes", language, NoBody)
  /\ IF ~validateLanguage(language)
     THEN res' = Reply(400, 0)
     ELSE \E quotes \in getQuotesByLanguage(table, language) :
            res' = IF IsEmpty(quotes) THEN Reply(404, 1) ELSE Listing(quotes)
  /\ UNCHANGED <<table, created, txn>>

\* GET /:language/quote
GetLanguageQuote(language) ==
  /\ Idle
  /\ req' = Request("GET /:language/quote", language, NoBody)
  /\ IF ~validateLanguage(language)
     THEN res' = Reply(400, 0)
     ELSE LET found == getRandomQuote(table, language)
          IN IF found = {}
             THEN res' = Reply(404, 1)
             ELSE \E quote \in found : res' = [Reply(200, 1) EXCEPT !.quotes = <<quote>>]
  /\ UNCHANGED <<table, created, txn>>

\* POST /:language/quote
PostLanguageQuote(language, body) ==
  /\ Idle
  /\ Len(table) + 1 <= MaxRows
  /\ req' = Request("POST /:language/quote", language, body)
  /\ IF ~validateLanguage(language)
     THEN res' = Reply(400, 0) /\ UNCHANGED <<table, created>>
     ELSE IF ~RequiredFields(body)
     THEN res' = Reply(400, 0) /\ UNCHANGED <<table, created>>
     ELSE LET r == addQuote(table, body.quote, body.author, Str(language))
          IN /\ table' = r.table
             /\ res' = IF r.ok THEN Reply(201, 1)
                       ELSE [Reply(500, 1) EXCEPT !.error = r.error]
             /\ created' =
                  IF r.ok /\ body.quote.t = "string" /\ body.author.t = "string"
                  THEN created \cup {[quote |-> body.quote.s, author |-> body.author.s,
                                      language |-> language]}
                  ELSE created
  /\ UNCHANGED txn

Next ==
  \/ GetQuotes
  \/ \E body \in BulkBodies : PostQuotes(body)
  \/ \E language \in PathSegments : GetLanguageQuotes(language)
  \/ \E language \in PathSegments : GetLanguageQuote(language)
  \/ \E language \in PathSegments, body \in SingleBodies : PostLanguageQuote(language, body)

Spec == Init /\ [][Next]_vars

\* ------------------------------------------- the storage component called directly

\* db.addManyQuotes(quotes), without the validation of the request handler.
DbAddManyQuotes(quotes) ==
  /\ Idle
  /\ Len(table) + Len(quotes) <= MaxRows
  /\ req' = Request("db.addManyQuotes", Empty, ArrayBody(quotes))
  /\ LET result == addManyQuotes(table, quotes)
     IN /\ table' = result.table
        /\ res' = [Reply(0, 1) EXCEPT !.success = result.success,
                     !.count = result.count, !.error = result.error]
  /\ UNCHANGED <<created, txn>>

\* db.addQuote(quote, author, language); an exception reaches the caller.
DbAddQuote(quote, author, language) ==
  /\ Idle
  /\ Len(table) + 1 <= MaxRows
  /\ req' = Request("db.addQuote", language, ObjectBody(quote, author))
  /\ LET r == addQuote(table, quote, author, Str(language))
     IN /\ table' = r.table
        /\ res' = [Reply(0, 1) EXCEPT !.success = r.ok, !.error = r.error]
  /\ UNCHANGED <<created, txn>>

NextDb ==
  \/ \E quotes \in Batches : DbAddManyQuotes(quotes)
  \/ \E quote \in {Str(Ta), Str(Empty)}, author \in {Str(Ta), Str(Tb)},
        language \in PathSegments : DbAddQuote(quote, author, language)

SpecDb == Init /\ [][NextDb]_vars

\* --------------------------------------- the bulk import, one statement at a time

\* POST /quotes up to BEGIN: the payload passed validateQuotes.
BulkBegin(body) ==
  /\ Idle
  /\ Len(table) + Len(body.items) <= MaxRows
  /\ validateQuotes(body) = "true"
  /\ req' = Request("POST /quotes", Empty, body)
  /\ res' = Reply(0, 0)
  /\ txn' = [active |-> TRUE, before |-> table, rest |-> body.items]
  /\ UNCHANGED <<table, created>>

\* POST /quotes answered by validateQuotes alone.
BulkRejected(body) ==
  /\ validateQuotes(body) # "true"
  /\ PostQuotes(body)

\* One insertManyQuotes.run of the loop that did not throw.
BulkInsert ==
  /\ txn.active
  /\ txn.rest # <<>>
  /\ LET r == insertManyQuotes_run(table, Head(txn.rest))
     IN r.ok /\ table' = r.table
  /\ txn' = [txn EXCEPT !.rest = Tail(txn.rest)]
  /\ UNCHANGED <<req, res, created>>

\* The loop is over: COMMIT, and the 200 response.
BulkCommit ==
  /\ txn.active
  /\ txn.rest = <<>>
  /\ res' = ImportReply([success |-> TRUE, count |-> Len(req.body.items),
                         error |-> "none"])
  /\ txn' = NoTxn
  /\ UNCHANGED <<table, req, created>>

\* An insertManyQuotes.run threw: ROLLBACK, and the 500 response.
BulkRollback ==
  /\ txn.active
  /\ txn.rest # <<>>
  /\ LET r == insertManyQuotes_run(table, Head(txn.rest))
     IN /\ ~r.ok
        /\ res' = ImportReply([success |-> FALSE, count |-> 0, error |-> r.error])
  /\ table' = Rollback(table, txn.before)
  /\ txn' = NoTxn
  /\ UNCHANGED <<req, created>>

NextSteps ==
  \/ GetQuotes
  \/ \E body \in BulkBodies : BulkRejected(body)
  \/ \E body \in BulkBodies : BulkBegin(body)
  \/ BulkInsert
  \/ BulkCommit
  \/ BulkRollback
  \/ \E language \in PathSegments : GetLanguageQuotes(language)
  \/ \E language \in PathSegments : GetLanguageQuote(language)
  \/ \E language \in PathSegments, body \in SingleBodies : PostLanguageQuote(language, body)

SpecSteps == Init /\ [][NextSteps]_vars

\* ------------------------------------------------ repeated random retrieval

\* Rows that earlier requests may have stored.
Selectable == [quote : {Ta, Tb}, author : {Ta, Tb}, language : {FR, EN}]

\* The tables a process may find in quotes.db when it starts: the schema is
\* created only if absent, so the rows of earlier runs are still there.
StoredTables ==
  UNION {{[i \in 1..n |-> [id |-> i, quote |-> f[i].quote, author |-> f[i].author,
                           language |-> f[i].language]] : f \in [1..n -> Selectable]} :
         n \in 0..MaxRows}

InitStored ==
  /\ table \in StoredTables
  /\ req = Request("none", Empty, NoBody)
  /\ res = Reply(0, 0)
  /\ created = {}
  /\ txn = NoTxn

NextReads ==
  \/ GetQuotes
  \/ \E language \in PathSegments : GetLanguageQuotes(language)
  \/ \E language \in PathSegments : GetLanguageQuote(language)

\* GET /:language/quote whose random choice is the given row.
Draw(language, quote) ==
  /\ GetLanguageQuote(language)
  /\ res'.status = 200
  /\ res'.quotes = <<quote>>

\* The random choice is fair: a row that stays among the matching rows is not
\* passed over for ever.
FairDraws == \A language \in {FR, EN}, quote \in Selectable : WF_vars(Draw(language, quote))

SpecFair == InitStored /\ [][NextReads]_vars /\ FairDraws

\* ------------------------------------------------------------------ claims

ReadOps == {"GET /quotes", "GET /:language/quotes", "GET /:language/quote"}

LanguageOps == {"GET /:language/quotes", "GET /:language/quote", "POST /:language/quote"}

\* A field that is missing (undefined, null) or the empty string.
Lacks(v) == v.t \in {"undefined", "null"} \/ (v.t = "string" /\ v.s = <<>>)

\* A record the table accepts: text in its three fields, the language fr or en.
Insertable(e) ==
  /\ e.t = "object"
  /\ e.quote.t = "string" /\ e.author.t = "string" /\ e.language.t = "string"
  /\ e.language.s \in {FR, EN}

\* The table with one row per record of the batch added after its rows.
Appended(tbl, items) ==
  [i \in 1..(Len(tbl) + Len(items)) |->
     IF i <= Len(tbl) THEN tbl[i]
     ELSE [id |-> i, quote |-> items[i - Len(tbl)].quote.s,
           author |-> items[i - Len(tbl)].author.s,
           language |-> items[i - Len(tbl)].language.s]]

Stored(tbl) == {Project(tbl[i]) : i \in 1..Len(tbl)}

StoredIn(tbl, language) ==
  {Project(tbl[i]) : i \in {j \in 1..Len(tbl) : tbl[j].language = language}}

Count(seq, x) == Cardinality({i \in 1..Len(seq) : seq[i] = x})

\* C1: db.addManyQuotes is all-or-nothing: when every record of the batch is
\* insertable the table is the old table followed by one row per record and the
\* result is success with count = N; otherwise the table is what it was and the
\* result is a failure carrying the cause.
C1_AllOrNothing ==
  [][req'.op = "db.addManyQuotes" =>
       LET items == req'.body.items
       IN IF \A i \in 1..Len(items) : Insertable(items[i])
          THEN /\ res'.success
               /\ res'.count = Len(items)
               /\ table' = Appended(table, items)
          ELSE /\ ~res'.success
               /\ res'.error # "none"
               /\ table' = table]_vars

\* A batch whose first record was inserted and whose second record failed.
C1_Witness ==
  /\ req.op = "db.addManyQuotes"
  /\ Len(req.body.items) = 2
  /\ Insertable(req.body.items[1])
  /\ req.body.items[2].t = "object"
  /\ req.body.items[2].language = Str(DE)
  /\ ~res.success
  /\ table = <<>>

InvalidElement(e) ==
  \/ e.t # "object"
  \/ Lacks(e.quote)
  \/ Lacks(e.author)
  \/ e.language.t # "string"
  \/ e.language.s \notin {FR, EN}

InvalidPayload(body) ==
  \/ ~body.isArray
  \/ \E i \in 1..Len(body.items) : InvalidElement(body.items[i])

\* C2: POST /quotes answers every invalid payload (not an array, or an array with
\* an element that is null, is not an object, or lacks a non-empty quote, a
\* non-empty author or a language in {fr, en}) with 400, before any storage call,
\* and inserts no row.
C2_InvalidPayloadIs400 ==
  [][(req'.op = "POST /quotes" /\ InvalidPayload(req'.body)) =>
       (res'.status = 400 /\ res'.dbCalls = 0 /\ table' = table)]_vars

C4_CreatedStaysListed ==
  /\ [](\A c \in created :
          /\ \A quotes \in getQuotesByLanguage(table, c.language) : Count(quotes, c) >= 1
          /\ (req.op = "GET /:language/quotes" /\ req.language = c.language) =>
               (res.status = 200 /\ Count(res.quotes, c) >= 1))
  /\ [][/\ Len(table') >= Len(table)
        /\ \A i \in 1..Len(table) : table'[i] = table[i]]_vars

\* A listing answered after a second row was stored still shows the quote that
\* was created first.
C4_Witness ==
  /\ req.op = "GET /:language/quotes"
  /\ res.status = 200
  /\ Len(table) = 2
  /\ \E c \in created : c.language = req.language /\ Project(table[1]) = c

\* C5: every row of the table has a language in {fr, en}, a non-empty quote and
\* a non-empty author.
C5_RowsWellFormed ==
  \A i \in 1..Len(table) :
    /\ table[i].language \in {FR, EN}
    /\ table[i].quote # Empty
    /\ table[i].author # Empty

\* C6: a 200 listing holds the matching rows, each once, in ascending order, and
\* total is its length: GET /quotes every row by (language, author),
\* GET /:language/quotes the rows of that language by author.
C6_ListingsCompleteAndSorted ==
  /\ (req.op = "GET /quotes" /\ res.status = 200) =>
       /\ Len(res.quotes) = Len(table)
       /\ \A q \in Stored(table) : Count(res.quotes, q) = Count([i \in 1..Len(table) |-> Project(table[i])], q)
       /\ \A i, j \in 1..Len(res.quotes) : i < j =>
            \/ (res.quotes[i].language # res.quotes[j].language
                /\ TextLeq(res.quotes[i].language, res.quotes[j].language))
            \/ (res.quotes[i].language = res.quotes[j].language
                /\ TextLeq(res.quotes[i].author, res.quotes[j].author))
       /\ res.total = Len(res.quotes)
  /\ (req.op = "GET /:language/quotes" /\ res.status = 200) =>
       /\ \A i \in 1..Len(res.quotes) : res.quotes[i].language = req.language
       /\ Len(res.quotes) = Cardinality({i \in 1..Len(table) : table[i].language = req.language})
       /\ \A q \in StoredIn(table, req.language) :
            Count(res.quotes, q) = Count([i \in 1..Len(table) |-> Project(table[i])], q)
       /\ \A i, j \in 1..Len(res.quotes) : i < j =>
            TextLeq(res.quotes[i].author, res.quotes[j].author)
       /\ res.total = Len(res.quotes)

\* The full listing puts the en row, inserted second, before the fr row.
C6_Witness ==
  /\ req.op = "GET /quotes"
  /\ res.status = 200
  /\ Len(table) = 2
  /\ table[1].language = FR
  /\ table[2].language = EN
  /\ res.quotes[1].language = EN

\* C7: a read that matches no row is answered 404 and one that matches rows 200
\* with them: GET /quotes is 404 exactly when the table is empty, and for fr and
\* en the two language reads are 404 exactly when no row has that language.
C7_EmptyReadIs404 ==
  /\ req.op = "GET /quotes" =>
       /\ res.status \in {200, 404}
       /\ (res.status = 404) = (table = <<>>)
       /\ res.status = 200 => res.quotes # <<>>
  /\ (req.op \in {"GET /:language/quotes", "GET /:language/quote"}
      /\ req.language \in {FR, EN}) =>
       /\ res.status \in {200, 404}
       /\ (res.status = 404) = (StoredIn(table, req.language) = {})
       /\ res.status = 200 => res.quotes # <<>>

\* Only en rows are stored and the fr listing is 404.
C7_Witness ==
  /\ req.op = "GET /:language/quotes"
  /\ req.language = FR
  /\ res.status = 404
  /\ table # <<>>
  /\ getAllQuotes(table) # {<<>>}

TwoDistinct(language) ==
  /\ Cardinality({i \in 1..Len(table) : table[i].language = language}) = 2
  /\ Cardinality(StoredIn(table, language)) = 2

Returned(language, quote) ==
  /\ req.op = "GET /:language/quote"
  /\ req.language = language
  /\ res.status = 200
  /\ res.quotes = <<quote>>

\* C8: a 200 answer of GET /:language/quote is a row stored with the requested
\* language, and when a language holds exactly two distinct quotes, each of them
\* is eventually returned under a fair random choice.
C8_RandomReturnsEveryMatch ==
  /\ []((req.op = "GET /:language/quote" /\ res.status = 200) =>
          (Len(res.quotes) = 1 /\ res.quotes[1] \in StoredIn(table, req.language)))
  /\ \A language \in {FR, EN}, quote \in Selectable :
       (TwoDistinct(language) /\ quote \in StoredIn(table, language))
         ~> Returned(language, quote)

\* The second of two fr rows is the one returned.
C8_Witness ==
  /\ TwoDistinct(FR)
  /\ Returned(FR, Project(table[2]))

\* C9: POST /:language/quote with fr or en and a body whose quote or author is
\* missing or empty answers 400 and leaves the table as it was.
C9_MissingFieldIs400 ==
  [][(/\ req'.op = "POST /:language/quote"
      /\ req'.language \in {FR, EN}
      /\ (Lacks(req'.body.quote) \/ Lacks(req'.body.author))) =>
       (res'.status = 400 /\ res'.dbCalls = 0 /\ table' = table)]_vars

C9_Witness ==
  /\ req.op = "POST /:language/quote"
  /\ req.language = EN
  /\ Truthy(req.body.quote)
  /\ req.body.author = Undefined
  /\ res.status = 400
  /\ table # <<>>

\* Rows of the batch are in the table, others are still to come.
InFlight == txn.active /\ Len(table) > Len(txn.before) /\ txn.rest # <<>>

\* C10: the bulk import is atomic and isolated: no read and no single insert is
\* served while only part of the batch is in the table, a quote acknowledged
\* with 201 is never lost, and when the import ends the table is the table at
\* its start followed by the whole batch (200) or by nothing (500).
C10_BulkIsolated ==
  /\ [][/\ (req'.op \in ReadOps \cup {"POST /:language/quote"}
            /\ <<req', res'>> # <<req, res>>) => ~InFlight
        /\ (txn.active /\ ~txn'.active) =>
             \/ res'.status = 200 /\ table' = Appended(txn.before, req.body.items)
             \/ res'.status = 500 /\ table' = txn.before]_vars
  /\ [](\A c \in created : c \in Stored(table))

\* The first record of the batch is in the table and the second will throw.
C10_Witness ==
  /\ InFlight
  /\ ~insertManyQuotes_run(table, Head(txn.rest)).ok

====
